---- MODULE Spec2Model ----
(***************************************************************************)
(* Model of parser::parse (nao_pos_server/src/parser.cpp): the line loop   *)
(* that turns a .pos keyframe script into a ParseResult.  Lines are        *)
(* sequences of one-character strings; split, std::stof and std::stoi are  *)
(* computed on the characters.                                             *)
(***************************************************************************)
EXTENDS Integers, Sequences, FiniteSets, TLC

\* Number of joints (JointIndexes::NUMJOINTS is 25 on the robot; scaled down).
NUMJOINTS == 2
\* Longest input (number of lines) explored.
MaxLines == 3

POSITIONS_SIZE == NUMJOINTS + 2
STIFFNESSES_SIZE == NUMJOINTS + 1

(***************************************************************************)
(* Characters                                                              *)
(***************************************************************************)
DigitChars == <<"0", "1", "2", "3", "4", "5", "6", "7", "8", "9">>

IsDigit(c) == \E d \in 1..10 : DigitChars[d] = c

DigitVal(c) == (CHOOSE d \in 1..10 : DigitChars[d] = c) - 1

IsSpace(c) == c \in {" ", "\t"}

\* Length of the run of decimal digits of s starting at index i.
RECURSIVE DigitRun(_, _)
DigitRun(s, i) ==
  IF i <= Len(s) /\ IsDigit(s[i]) THEN 1 + DigitRun(s, i + 1) ELSE 0

\* Length of the run of whitespace of s starting at index i.
RECURSIVE SpaceRun(_, _)
SpaceRun(s, i) ==
  IF i <= Len(s) /\ IsSpace(s[i]) THEN 1 + SpaceRun(s, i + 1) ELSE 0

RECURSIVE Pow10(_)
Pow10(n) == IF n = 0 THEN 1 ELSE 10 * Pow10(n - 1)

(***************************************************************************)
(* split: whitespace-separated tokens of a line (istream_iterator<string>) *)
(***************************************************************************)
RECURSIVE SplitFrom(_, _, _, _)
SplitFrom(line, i, cur, acc) ==
  IF i > Len(line)
  THEN IF cur = <<>> THEN acc ELSE Append(acc, cur)
  ELSE IF IsSpace(line[i])
       THEN SplitFrom(line, i + 1, <<>>, IF cur = <<>> THEN acc ELSE Append(acc, cur))
       ELSE SplitFrom(line, i + 1, Append(cur, line[i]), acc)

split(line) == SplitFrom(line, 1, <<>>, <<>>)

(***************************************************************************)
(* std::stoi: optional whitespace, optional sign, decimal digits; the      *)
(* longest numeric prefix is converted and the rest of the token ignored.  *)
(* No digits: std::invalid_argument.  Outside int: std::out_of_range.      *)
(* pos is the number of characters converted.                              *)
(***************************************************************************)
INT_MAX == 2147483647

\* Accumulates n digits from index i into the signed value acc, away from zero.
RECURSIVE AccInt(_, _, _, _, _)
AccInt(s, i, n, neg, acc) ==
  IF n = 0 THEN [kind |-> "ok", val |-> acc, pos |-> i - 1]
  ELSE LET d == DigitVal(s[i])
           m == IF neg THEN 0 - acc ELSE acc
           lastDigit == IF neg THEN (INT_MAX % 10) + 1 ELSE INT_MAX % 10
       IN  IF m > INT_MAX \div 10 \/ (m = INT_MAX \div 10 /\ d > lastDigit)
           THEN [kind |-> "out_of_range", val |-> 0, pos |-> 0]
           ELSE AccInt(s, i + 1, n - 1, neg,
                       IF neg THEN acc * 10 - d ELSE acc * 10 + d)

stoi(s) ==
  LET i0 == 1 + SpaceRun(s, 1)
      neg == i0 <= Len(s) /\ s[i0] = "-"
      sgn == i0 <= Len(s) /\ s[i0] \in {"-", "+"}
      i1 == IF sgn THEN i0 + 1 ELSE i0
      n == DigitRun(s, i1)
  IN  IF n = 0 THEN [kind |-> "invalid_argument", val |-> 0, pos |-> 0]
      ELSE AccInt(s, i1, n, neg, 0)

(***************************************************************************)
(* std::stof on decimal notation: optional sign, digits with an optional   *)
(* fraction, optional exponent; the longest numeric prefix is converted.   *)
(* The float is kept in thousandths (fixed point).  No digits:             *)
(* std::invalid_argument.  Magnitude above FLT_MAX (3.4e38) or below the   *)
(* smallest float (1.4e-45): std::out_of_range.  pos is the number of      *)
(* characters converted.                                                   *)
(***************************************************************************)
FLT_MAX_10_EXP == 38
FLT_MIN_10_EXP == -45

\* Value of the n decimal digits of s starting at index i.
RECURSIVE DecVal(_, _, _)
DecVal(s, i, n) ==
  IF n = 0 THEN 0 ELSE DecVal(s, i, n - 1) * 10 + DigitVal(s[i + n - 1])

\* Number of leading "0" characters among the n digits of s from index i.
RECURSIVE ZeroRun(_, _, _)
ZeroRun(s, i, n) ==
  IF n > 0 /\ s[i] = "0" THEN 1 + ZeroRun(s, i + 1, n - 1) ELSE 0

\* Optional sign at index i: whether negative, and the index after it.
ScanSign(s, i) ==
  IF i <= Len(s) /\ s[i] \in {"-", "+"}
  THEN [neg |-> s[i] = "-", next |-> i + 1]
  ELSE [neg |-> FALSE, next |-> i]

\* Digits with an optional fraction from index i: the number of integer digits
\* ni, the start fs and number nf of the fraction digits, the index after.
ScanMantissa(s, i) ==
  LET ni == DigitRun(s, i)
  IN  IF i + ni <= Len(s) /\ s[i + ni] = "."
      THEN [ni |-> ni, fs |-> i + ni + 1, nf |-> DigitRun(s, i + ni + 1),
            next |-> i + ni + 1 + DigitRun(s, i + ni + 1)]
      ELSE [ni |-> ni, fs |-> i + ni, nf |-> 0, next |-> i + ni]

\* Optional exponent at index i ("e", optional sign, at least one digit): its
\* value and the index after it; without digits nothing is converted.
ScanExponent(s, i) ==
  IF i <= Len(s) /\ s[i] \in {"e", "E"}
  THEN LET sg == ScanSign(s, i + 1)
           ne == DigitRun(s, sg.next)
       IN  IF ne = 0 THEN [ex |-> 0, next |-> i]
           ELSE [ex |-> IF sg.neg THEN 0 - DecVal(s, sg.next, ne)
                        ELSE DecVal(s, sg.next, ne),
                 next |-> sg.next + ne]
  ELSE [ex |-> 0, next |-> i]

\* Whether every digit of the mantissa m (starting at index i) is "0".
ZeroMantissa(s, i, m) == ZeroRun(s, i, m.ni) = m.ni /\ ZeroRun(s, m.fs, m.nf) = m.nf

\* Decimal order of magnitude of the leading significant digit.
Magnitude(s, i, m, ex) ==
  IF ZeroRun(s, i, m.ni) < m.ni
  THEN ex + (m.ni - ZeroRun(s, i, m.ni) - 1)
  ELSE ex - ZeroRun(s, m.fs, m.nf) - 1

\* Mantissa m (starting at index i) times 10^ex, in thousandths.
Thousandths(s, i, m, ex) ==
  LET frac == IF m.nf >= 3 THEN DecVal(s, m.fs, 3)
              ELSE DecVal(s, m.fs, m.nf) * Pow10(3 - m.nf)
      milli == DecVal(s, i, m.ni) * 1000 + frac
  IN  IF ex >= 0 THEN milli * Pow10(ex) ELSE milli \div Pow10(0 - ex)

\* The conversion once sign sg, mantissa m and exponent e are scanned.
Converted(s, sg, m, e) ==
  IF m.ni = 0 /\ m.nf = 0 THEN [kind |-> "invalid_argument", val |-> 0, pos |-> 0]
  ELSE IF ZeroMantissa(s, sg.next, m) THEN [kind |-> "ok", val |-> 0, pos |-> e.next - 1]
  ELSE IF Magnitude(s, sg.next, m, e.ex) > FLT_MAX_10_EXP
          \/ Magnitude(s, sg.next, m, e.ex) < FLT_MIN_10_EXP
       THEN [kind |-> "out_of_range", val |-> 0, pos |-> 0]
       ELSE [kind |-> "ok",
             val |-> IF sg.neg THEN 0 - Thousandths(s, sg.next, m, e.ex)
                     ELSE Thousandths(s, sg.next, m, e.ex),
             pos |-> e.next - 1]

ScanFloat(s, sg) ==
  Converted(s, sg, ScanMantissa(s, sg.next),
            ScanExponent(s, ScanMantissa(s, sg.next).next))

stof(s) == ScanFloat(s, ScanSign(s, 1 + SpaceRun(s, 1)))

(***************************************************************************)
(* unsigned (32 bit) as two 16-bit halves, so that keyFrameTime keeps its  *)
(* width; int is converted to unsigned modulo 2^32 before the addition.    *)
(***************************************************************************)
HALF == 65536

U32(n) == [hi |-> n \div HALF, lo |-> n % HALF]

\* int -> unsigned conversion (two's complement for negative values).
ToUnsigned(d) ==
  IF d >= 0 THEN U32(d)
  ELSE LET e == (d + INT_MAX) + 1
       IN  [hi |-> (e \div HALF) + (HALF \div 2), lo |-> e % HALF]

AddUnsigned(a, b) ==
  LET lo == a.lo + b.lo
  IN  [hi |-> (a.hi + b.hi + (lo \div HALF)) % HALF, lo |-> lo % HALF]

LeqUnsigned(a, b) == a.hi < b.hi \/ (a.hi = b.hi /\ a.lo <= b.lo)

(***************************************************************************)
(* Input lines                                                             *)
(***************************************************************************)
T_stiff == <<"$">>
T_pos == <<"!">>
T_unset == <<"-">>
T_90 == <<"9", "0">>
T_05 == <<"0", ".", "5">>
T_abc == <<"a", "b", "c">>
T_12abc == <<"1", "2", "a", "b", "c">>
T_1e39 == <<"1", "e", "3", "9">>
T_300 == <<"3", "0", "0">>
T_200 == <<"2", "0", "0">>
T_m1 == <<"-", "1">>
T_1p5 == <<"1", ".", "5">>
T_intmax == <<"2", "1", "4", "7", "4", "8", "3", "6", "4", "7">>
T_intover == <<"2", "1", "4", "7", "4", "8", "3", "6", "4", "8">>

\* Tokens joined by single blanks.
RECURSIVE Join(_)
Join(toks) ==
  IF toks = <<>> THEN <<>>
  ELSE IF Len(toks) = 1 THEN toks[1]
  ELSE toks[1] \o <<" ">> \o Join(Tail(toks))

AllJoints == 0..(NUMJOINTS - 1)
Patterns == {AllJoints, {0}, {NUMJOINTS - 1}, {}}

\* One value field per joint: tok for the joints of p, the unset sentinel elsewhere.
Fields(p, tok) == [i \in 1..NUMJOINTS |-> IF (i - 1) \in p THEN tok ELSE T_unset]

PosLine(p, tok, dur) == Join(<<T_pos>> \o Fields(p, tok) \o <<dur>>)
StiffLine(p, tok) == Join(<<T_stiff>> \o Fields(p, tok))
\* All joints set, the last value field replaced by tok.
LastField(good, tok) == [Fields(AllJoints, good) EXCEPT ![NUMJOINTS] = tok]

BadValues == {T_abc, T_12abc, T_1e39}
GoodDurations == {T_300, T_200, T_m1, T_intmax}
BadDurations == {T_abc, T_12abc, T_1p5, T_intover}

PositionLines ==
  {PosLine(p, T_90, T_300) : p \in Patterns}
    \cup {PosLine(AllJoints, T_90, d) : d \in GoodDurations \cup BadDurations}
    \cup {PosLine({0}, T_90, T_abc)}
    \cup {Join(<<T_pos>> \o LastField(T_90, b) \o <<T_300>>) : b \in BadValues}
    \cup {Join(<<T_pos>> \o Fields(AllJoints, T_1e39)),
          Join(<<T_pos>> \o Fields(AllJoints, T_90) \o <<T_300, T_300>>),
          PosLine(AllJoints, T_90, T_300) \o <<" ">>}

StiffnessLines ==
  {StiffLine(p, T_05) : p \in Patterns}
    \cup {Join(<<T_stiff>> \o LastField(T_05, b)) : b \in BadValues}
    \cup {Join(<<T_stiff>> \o Tail(Fields(AllJoints, T_1e39))),
          Join(<<T_stiff>> \o Fields(AllJoints, T_05) \o <<T_05>>)}

OtherLines ==
  {<<>>, <<"#">>, <<" ">> \o PosLine(AllJoints, T_90, T_300)}

Lines == PositionLines \cup StiffnessLines \cup OtherLines

(***************************************************************************)
(* State of one parse invocation                                           *)
(***************************************************************************)
VARIABLES
  in,                  \* the lines consumed so far by the loop, in order
  pc,                  \* "loop", "returned", "threw" (exception left parse), "aborted"
  parseResult,         \* [successful, keyFrames]
  keyFrameTime,        \* unsigned clock
  jointStiffnesses,    \* pending [indexes, stiffnesses]
  customStiffnesses,
  firstPosLine,
  prevJointPositions,  \* [indexes, positions] of the previous position line
  logged,              \* the last error message written to the logger ("" if none)
  parked               \* a second invocation of parse, not running: all of the above

vars == <<in, pc, parseResult, keyFrameTime, jointStiffnesses, customStiffnesses,
          firstPosLine, prevJointPositions, logged, parked>>

locals == <<keyFrameTime, jointStiffnesses, customStiffnesses, firstPosLine,
            prevJointPositions>>

EmptyStiffnesses == [indexes |-> <<>>, stiffnesses |-> <<>>]
EmptyPositions == [indexes |-> <<>>, positions |-> <<>>]

\* float 1.0 in thousandths
FullStiffness == 1000

\* position_deg * M_PI / 180 on thousandths (pi taken as 355/113)
DegToRad(deg) == (deg * 355) \div (113 * 180)

\* ParseResult parseResult; successful holds no value until a return path
\* assigns it, and nothing reads it before.
Indeterminate == "indeterminate"

\* An invocation of parse at the head of its loop, no line consumed.
Entered ==
  [in |-> <<>>, pc |-> "loop",
   parseResult |-> [successful |-> Indeterminate, keyFrames |-> <<>>],
   keyFrameTime |-> U32(0), jointStiffnesses |-> EmptyStiffnesses,
   customStiffnesses |-> FALSE, firstPosLine |-> TRUE,
   prevJointPositions |-> EmptyPositions, logged |-> ""]

Init ==
  /\ in = <<>>
  /\ pc = "loop"
  /\ parseResult = [successful |-> Indeterminate, keyFrames |-> <<>>]
  /\ keyFrameTime = U32(0)
  /\ jointStiffnesses = EmptyStiffnesses
  /\ customStiffnesses = FALSE
  /\ firstPosLine = TRUE
  /\ prevJointPositions = EmptyPositions
  /\ logged = ""
  /\ parked = Entered

\* log the error; return with parseResult.successful = false
Fail(message) ==
  /\ logged' = message
  /\ parseResult' = [parseResult EXCEPT !.successful = FALSE]
  /\ pc' = "returned"

\* an exception no handler of parse catches leaves the function
Throw == /\ pc' = "threw"
         /\ UNCHANGED <<parseResult, logged>>

\* The value loop of a stiffness line from field i on: the stiffness list js
\* grows until the loop ends or a conversion throws.
RECURSIVE ReadStiffnesses(_, _, _)
ReadStiffnesses(toks, i, js) ==
  IF i > NUMJOINTS THEN [kind |-> "ok", js |-> js]
  ELSE IF toks[i + 1] = T_unset THEN ReadStiffnesses(toks, i + 1, js)
  ELSE LET f == stof(toks[i + 1])
       IN  IF f.kind = "ok"
           THEN ReadStiffnesses(toks, i + 1,
                  [indexes |-> Append(js.indexes, i - 1),
                   stiffnesses |-> Append(js.stiffnesses, f.val)])
           ELSE [kind |-> f.kind, js |-> js]

\* Variant: the implicit entry is filed under the field number, not the joint index.
ImplicitStiffness_FieldNumber(js, i, custom) ==
  IF custom THEN js
  ELSE [indexes |-> Append(js.indexes, i),
        stiffnesses |-> Append(js.stiffnesses, FullStiffness)]

\* if (!customStiffnesses): the joint of field i gets full stiffness
ImplicitStiffness(js, i, custom) ==
  IF custom THEN js
  ELSE [indexes |-> Append(js.indexes, i - 1),
        stiffnesses |-> Append(js.stiffnesses, FullStiffness)]

\* Variant: the position is filed under the field number, not the joint index.
AddPosition_FieldNumber(jp, i, deg) ==
  [indexes |-> Append(jp.indexes, i),
   positions |-> Append(jp.positions, DegToRad(deg))]

\* jointPositions gets the joint of field i with its angle in radians
AddPosition(jp, i, deg) ==
  [indexes |-> Append(jp.indexes, i - 1),
   positions |-> Append(jp.positions, DegToRad(deg))]

\* The value loop of a position line from field i on.
RECURSIVE ReadPositions(_, _, _, _, _)
ReadPositions(toks, i, jp, js, custom) ==
  IF i > NUMJOINTS THEN [kind |-> "ok", jp |-> jp, js |-> js]
  ELSE IF toks[i + 1] = T_unset THEN ReadPositions(toks, i + 1, jp, js, custom)
  ELSE LET f == stof(toks[i + 1])
       IN  IF f.kind = "ok"
           THEN ReadPositions(toks, i + 1, AddPosition(jp, i, f.val),
                  ImplicitStiffness(js, i, custom), custom)
           ELSE [kind |-> f.kind, jp |-> jp, js |-> js]

\* Variant: only lines with too few tokens are rejected.
WrongSize_TooFew(splitted_line, size) == Len(splitted_line) < size

\* size check of a split line
WrongSize(splitted_line, size) == Len(splitted_line) # size

\* line.front() == '$'
StiffnessLine(line) ==
  /\ pc = "loop" /\ Len(in) < MaxLines
  /\ line # <<>> /\ line[1] = "$"
  /\ in' = Append(in, line)
  /\ LET splitted_line == split(line)
     IN  IF WrongSize(splitted_line, STIFFNESSES_SIZE)
         THEN Fail("size") /\ UNCHANGED locals
         ELSE LET r == ReadStiffnesses(splitted_line, 1, jointStiffnesses)
              IN  /\ customStiffnesses' = TRUE
                  /\ jointStiffnesses' = r.js
                  /\ UNCHANGED <<keyFrameTime, firstPosLine, prevJointPositions>>
                  /\ CASE r.kind = "ok" -> UNCHANGED <<pc, parseResult, logged>>
                       [] r.kind = "invalid_argument" -> Fail("stiffness_value")
                       [] r.kind = "out_of_range" -> Throw
  /\ UNCHANGED parked

\* Variant: only the number of set joints is compared with the previous line's.
InconsistentJointSet_SizeOnly(jp, prev) == Len(jp.indexes) # Len(prev.indexes)

\* jointPositions.indexes != prevJointPositions.indexes
InconsistentJointSet(jp, prev) == jp.indexes # prev.indexes

\* keyFrameTime += duration
AdvanceClock(time, duration) == AddUnsigned(time, ToUnsigned(duration))

\* Variant: only the sizes of the stiffness and position index lists are compared.
SameIndexes_SizeOnly(jp, js) == Len(jp.indexes) = Len(js.indexes)

\* The stiffness/position index comparison of a position line with custom stiffness.
SameIndexes(jp, js) ==
  /\ Len(jp.indexes) = Len(js.indexes)
  /\ \A i \in 1..Len(jp.indexes) : jp.indexes[i] = js.indexes[i]

\* Variant: the duration is converted before the cross-frame comparison.
FailingCheck_DurationFirst(first, jp, prev, d, custom, js) ==
  IF d.kind # "ok" THEN "duration"
  ELSE IF ~first /\ InconsistentJointSet(jp, prev) THEN "inconsistent"
  ELSE IF custom /\ Len(jp.indexes) # Len(js.indexes) THEN "stiffness_size"
  ELSE IF custom /\ ~SameIndexes(jp, js) THEN "stiffness_index"
  ELSE "none"

\* Variant: pending stiffness is compared with the positions by size only.
FailingCheck_NoIndexCheck(first, jp, prev, d, custom, js) ==
  IF ~first /\ InconsistentJointSet(jp, prev) THEN "inconsistent"
  ELSE IF d.kind # "ok" THEN "duration"
  ELSE IF custom /\ Len(jp.indexes) # Len(js.indexes) THEN "stiffness_size"
  ELSE "none"

\* The checks of a position line after its value loop, in the order of the
\* code: the first one that does not pass ("none" if all pass).
FailingCheck(first, jp, prev, d, custom, js) ==
  IF ~first /\ InconsistentJointSet(jp, prev) THEN "inconsistent"
  ELSE IF d.kind # "ok" THEN "duration"
  ELSE IF custom /\ Len(jp.indexes) # Len(js.indexes) THEN "stiffness_size"
  ELSE IF custom /\ ~SameIndexes(jp, js) THEN "stiffness_index"
  ELSE "none"

\* Variant: the custom-stiffness flag survives the keyframe.
ResetStiffness_KeepsFlag ==
  /\ jointStiffnesses' = EmptyStiffnesses
  /\ UNCHANGED customStiffnesses

\* jointStiffnesses cleared, customStiffnesses = false
ResetStiffness ==
  /\ jointStiffnesses' = EmptyStiffnesses
  /\ customStiffnesses' = FALSE

\* line.front() == '!'
PositionLine(line) ==
  /\ pc = "loop" /\ Len(in) < MaxLines
  /\ line # <<>> /\ line[1] = "!"
  /\ in' = Append(in, line)
  /\ LET splitted_line == split(line)
     IN  IF WrongSize(splitted_line, POSITIONS_SIZE)
         THEN Fail("size") /\ UNCHANGED locals
         ELSE
     LET r == ReadPositions(splitted_line, 1, EmptyPositions, jointStiffnesses,
                            customStiffnesses)
         d == stoi(splitted_line[Len(splitted_line)])
         t == AdvanceClock(keyFrameTime, d.val)
         check == FailingCheck(firstPosLine, r.jp, prevJointPositions, d,
                               customStiffnesses, r.js)
     IN  IF r.kind # "ok"
         THEN /\ jointStiffnesses' = r.js
              /\ UNCHANGED <<keyFrameTime, customStiffnesses, firstPosLine,
                             prevJointPositions>>
              /\ IF r.kind = "invalid_argument" THEN Fail("joint_value") ELSE Throw
         ELSE IF check = "inconsistent"
         THEN /\ jointStiffnesses' = r.js
              /\ UNCHANGED <<keyFrameTime, customStiffnesses, firstPosLine,
                             prevJointPositions>>
              /\ Fail(check)
         ELSE IF check = "duration"
         THEN /\ jointStiffnesses' = r.js
              /\ firstPosLine' = FALSE
              /\ UNCHANGED <<keyFrameTime, customStiffnesses, prevJointPositions>>
              /\ IF d.kind = "invalid_argument" THEN Fail(check) ELSE Throw
         ELSE IF check \in {"stiffness_size", "stiffness_index"}
         THEN /\ jointStiffnesses' = r.js
              /\ firstPosLine' = FALSE
              /\ keyFrameTime' = t
              /\ UNCHANGED <<customStiffnesses, prevJointPositions>>
              /\ Fail(check)
         ELSE /\ parseResult' = [parseResult EXCEPT !.keyFrames =
                   Append(@, [keyFrameTime |-> t, jointPositions |-> r.jp,
                              jointStiffnesses |-> r.js])]
              /\ keyFrameTime' = t
              /\ prevJointPositions' = r.jp
              /\ ResetStiffness
              /\ firstPosLine' = FALSE
              /\ UNCHANGED <<pc, logged>>
  /\ UNCHANGED parked

\* Variant: an ignored line discards the pending stiffness.
IgnoredLine_ClearsPending(line) ==
  /\ pc = "loop" /\ Len(in) < MaxLines
  /\ line # <<>> /\ line[1] \notin {"$", "!"}
  /\ in' = Append(in, line)
  /\ ResetStiffness
  /\ UNCHANGED <<pc, parseResult, keyFrameTime, firstPosLine, prevJointPositions,
                 logged, parked>>

\* any other first character: the line is only logged
IgnoredLine(line) ==
  /\ pc = "loop" /\ Len(in) < MaxLines
  /\ line # <<>> /\ line[1] \notin {"$", "!"}
  /\ in' = Append(in, line)
  /\ UNCHANGED <<pc, parseResult, locals, logged, parked>>

\* line.front() on an empty string is undefined: the character read may be
\* anything (the line is ignored, or taken for a directive with no tokens and
\* rejected by the size check), or a checked build aborts.
EmptyLine ==
  /\ pc = "loop" /\ Len(in) < MaxLines
  /\ in' = Append(in, <<>>)
  /\ UNCHANGED <<locals, parked>>
  /\ \/ UNCHANGED <<pc, parseResult, logged>>
     \/ Fail("size")
     \/ pc' = "aborted" /\ UNCHANGED <<parseResult, logged>>

\* Variant: stiffness left pending at the end of the input is a failure.
Return_PendingStiffnessFails ==
  /\ pc = "loop"
  /\ parseResult' = [parseResult EXCEPT !.successful = ~customStiffnesses]
  /\ pc' = "returned"
  /\ UNCHANGED <<in, locals, logged, parked>>

\* end of the loop: parseResult.successful = true; return
Return ==
  /\ pc = "loop"
  /\ parseResult' = [parseResult EXCEPT !.successful = TRUE]
  /\ pc' = "returned"
  /\ UNCHANGED <<in, locals, logged, parked>>

Next ==
  \/ \E line \in StiffnessLines : StiffnessLine(line)
  \/ \E line \in PositionLines : PositionLine(line)
  \/ \E line \in OtherLines : IgnoredLine(line)
  \/ EmptyLine
  \/ Return

Spec == Init /\ [][Next]_vars

(***************************************************************************)
(* Two invocations of parse.  Every variable of parse is an automatic      *)
(* variable of the call, so an invocation that is not running keeps all of *)
(* its state; Switch hands the processor to the other invocation.          *)
(***************************************************************************)
\* Lines the two invocations consume together.
MaxCallLines == 2

\* The running invocation.
Running ==
  [in |-> in, pc |-> pc, parseResult |-> parseResult, keyFrameTime |-> keyFrameTime,
   jointStiffnesses |-> jointStiffnesses, customStiffnesses |-> customStiffnesses,
   firstPosLine |-> firstPosLine, prevJointPositions |-> prevJointPositions,
   logged |-> logged]

\* Variant: the pending stiffness and its flag are shared by the invocations.
Switch_SharedStiffness ==
  /\ parked' = Running
  /\ in' = parked.in
  /\ pc' = parked.pc
  /\ parseResult' = parked.parseResult
  /\ keyFrameTime' = parked.keyFrameTime
  /\ firstPosLine' = parked.firstPosLine
  /\ prevJointPositions' = parked.prevJointPositions
  /\ logged' = parked.logged
  /\ UNCHANGED <<jointStiffnesses, customStiffnesses>>

Switch ==
  /\ parked' = Running
  /\ in' = parked.in
  /\ pc' = parked.pc
  /\ parseResult' = parked.parseResult
  /\ keyFrameTime' = parked.keyFrameTime
  /\ jointStiffnesses' = parked.jointStiffnesses
  /\ customStiffnesses' = parked.customStiffnesses
  /\ firstPosLine' = parked.firstPosLine
  /\ prevJointPositions' = parked.prevJointPositions
  /\ logged' = parked.logged

CallBudget == Len(in) + Len(parked.in) < MaxCallLines

NextCalls ==
  \/ \E line \in StiffnessLines : CallBudget /\ StiffnessLine(line)
  \/ \E line \in PositionLines : CallBudget /\ PositionLine(line)
  \/ \E line \in OtherLines : CallBudget /\ IgnoredLine(line)
  \/ CallBudget /\ EmptyLine
  \/ Return
  \/ Switch

SpecCalls == Init /\ [][NextCalls]_vars

(***************************************************************************)
(* parse as a function of its input: the state an invocation is in after   *)
(* the lines, computed line by line from the state at entry.  For a        *)
(* zero-length line the function takes the outcome where it is ignored.    *)
(***************************************************************************)
Failure(st, message) ==
  [st EXCEPT !.pc = "returned", !.parseResult.successful = FALSE, !.logged = message]

Thrown(st) == [st EXCEPT !.pc = "threw"]

StiffnessStep(st, toks) ==
  IF WrongSize(toks, STIFFNESSES_SIZE) THEN Failure(st, "size")
  ELSE LET r == ReadStiffnesses(toks, 1, st.jointStiffnesses)
           read == [st EXCEPT !.customStiffnesses = TRUE, !.jointStiffnesses = r.js]
       IN  CASE r.kind = "ok" -> read
             [] r.kind = "invalid_argument" -> Failure(read, "stiffness_value")
             [] r.kind = "out_of_range" -> Thrown(read)

\* A position line whose value loop r ended normally.
CheckedStep(st, r, d) ==
  LET check == FailingCheck(st.firstPosLine, r.jp, st.prevJointPositions, d,
                            st.customStiffnesses, r.js)
      read == [st EXCEPT !.jointStiffnesses = r.js]
      t == AdvanceClock(st.keyFrameTime, d.val)
  IN  IF check = "inconsistent" THEN Failure(read, check)
      ELSE IF check = "duration"
      THEN IF d.kind = "invalid_argument"
           THEN Failure([read EXCEPT !.firstPosLine = FALSE], check)
           ELSE Thrown([read EXCEPT !.firstPosLine = FALSE])
      ELSE IF check # "none"
      THEN Failure([read EXCEPT !.firstPosLine = FALSE, !.keyFrameTime = t], check)
      ELSE [st EXCEPT !.parseResult.keyFrames =
                         Append(@, [keyFrameTime |-> t, jointPositions |-> r.jp,
                                    jointStiffnesses |-> r.js]),
                      !.keyFrameTime = t,
                      !.prevJointPositions = r.jp,
                      !.jointStiffnesses = EmptyStiffnesses,
                      !.customStiffnesses = FALSE,
                      !.firstPosLine = FALSE]

PositionStep(st, toks) ==
  IF WrongSize(toks, POSITIONS_SIZE) THEN Failure(st, "size")
  ELSE LET r == ReadPositions(toks, 1, EmptyPositions, st.jointStiffnesses,
                              st.customStiffnesses)
       IN  IF r.kind = "ok" THEN CheckedStep(st, r, stoi(toks[Len(toks)]))
           ELSE IF r.kind = "invalid_argument"
           THEN Failure([st EXCEPT !.jointStiffnesses = r.js], "joint_value")
           ELSE Thrown([st EXCEPT !.jointStiffnesses = r.js])

\* One iteration of the loop; nothing is consumed once parse has ended.
LineStep(st, line) ==
  IF st.pc # "loop" THEN st
  ELSE IF line = <<>> THEN [st EXCEPT !.in = Append(@, line)]
  ELSE IF line[1] = "$" THEN StiffnessStep([st EXCEPT !.in = Append(@, line)], split(line))
  ELSE IF line[1] = "!" THEN PositionStep([st EXCEPT !.in = Append(@, line)], split(line))
  ELSE [st EXCEPT !.in = Append(@, line)]

\* The invocation after the first n lines.
RECURSIVE ParseState(_, _)
ParseState(lines, n) ==
  IF n = 0 THEN Entered ELSE LineStep(ParseState(lines, n - 1), lines[n])

\* parse(in): the invocation when it has returned (or thrown).
parse(lines) ==
  LET st == ParseState(lines, Len(lines))
  IN  IF st.pc = "loop"
      THEN [st EXCEPT !.pc = "returned", !.parseResult.successful = TRUE]
      ELSE st

TypeOK ==
  /\ in \in Seq(Lines) /\ Len(in) <= MaxLines
  /\ pc \in {"loop", "returned", "threw", "aborted"}
  /\ IF pc = "returned" THEN parseResult.successful \in BOOLEAN
     ELSE parseResult.successful = Indeterminate
  /\ customStiffnesses \in BOOLEAN /\ firstPosLine \in BOOLEAN

(***************************************************************************)
(* Reading the consumed input, for the properties below                    *)
(***************************************************************************)
IsStiffness(line) == line # <<>> /\ line[1] = "$"
IsPosition(line) == line # <<>> /\ line[1] = "!"

keyFrames == parseResult.keyFrames
Failed == pc = "returned" /\ ~parseResult.successful
Succeeded == pc = "returned" /\ parseResult.successful

\* Indexes (in s) of the position directives of s, in order.
PositionIdxs(s) ==
  LET F[i \in 0..Len(s)] ==
        IF i = 0 THEN <<>>
        ELSE IF IsPosition(s[i]) THEN Append(F[i - 1], i) ELSE F[i - 1]
  IN  F[Len(s)]

\* Joint indexes whose value field on the line is not the unset sentinel.
RECURSIVE SetJoints(_, _)
SetJoints(toks, i) ==
  IF i > NUMJOINTS THEN <<>>
  ELSE (IF toks[i + 1] # T_unset THEN <<i - 1>> ELSE <<>>) \o SetJoints(toks, i + 1)

LineJoints(line) == SetJoints(split(line), 1)

\* Values of the set fields of a stiffness line, in order.
RECURSIVE SetValues(_, _)
SetValues(toks, i) ==
  IF i > NUMJOINTS THEN <<>>
  ELSE (IF toks[i + 1] # T_unset THEN <<stof(toks[i + 1]).val>> ELSE <<>>)
         \o SetValues(toks, i + 1)

\* The stiffness directives among lines a..b of s, concatenated in line order.
RECURSIVE PendingJoints(_, _, _)
PendingJoints(s, a, b) ==
  IF a > b THEN <<>>
  ELSE (IF IsStiffness(s[a]) THEN LineJoints(s[a]) ELSE <<>>) \o PendingJoints(s, a + 1, b)

RECURSIVE PendingValues(_, _, _)
PendingValues(s, a, b) ==
  IF a > b THEN <<>>
  ELSE (IF IsStiffness(s[a]) THEN SetValues(split(s[a]), 1) ELSE <<>>)
         \o PendingValues(s, a + 1, b)

\* Line of the k-th position directive and of the one before it (0 if none).
PosAt(k) == PositionIdxs(in)[k]
PosBefore(k) == IF k = 1 THEN 0 ELSE PositionIdxs(in)[k - 1]
StiffnessBetween(a, b) == \E i \in (a + 1)..(b - 1) : IsStiffness(in[i])

Duration(line) == stoi(split(line)[Len(split(line))]).val

(***************************************************************************)
(* Properties                                                              *)
(***************************************************************************)

\* C1: whenever parse reports failure, the returned result carries no keyframes.
C1_NoKeyFramesOnFailure == Failed => keyFrames = <<>>

\* C2: in a successful parse (and as long as no line was rejected) every
\* keyframe has the position index sequence of the first one, and every
\* position directive consumed sets the joints the first position directive
\* sets (a directive that differs was rejected).
C2_SameJointSet ==
  (pc = "loop" \/ Succeeded) =>
    /\ \A k \in 1..Len(keyFrames) :
         keyFrames[k].jointPositions.indexes = keyFrames[1].jointPositions.indexes
    /\ Len(PositionIdxs(in)) = Len(keyFrames)
    /\ \A k \in 1..Len(PositionIdxs(in)) :
         /\ LineJoints(in[PosAt(k)]) = LineJoints(in[PosAt(1)])
         /\ keyFrames[k].jointPositions.indexes = LineJoints(in[PosAt(k)])

\* Three position directives on joint 0 alone were accepted.
C2_Witness ==
  /\ Succeeded /\ Len(keyFrames) = 3
  /\ \A k \in 1..3 : keyFrames[k].jointPositions.indexes = <<0>>

\* C3: absolute_time never decreases from one keyframe to the next.
C3_MonotonicTime ==
  \A k \in 1..(Len(keyFrames) - 1) :
    LeqUnsigned(keyFrames[k].keyFrameTime, keyFrames[k + 1].keyFrameTime)

\* Exact (unbounded) sum of the durations of the first k position directives,
\* as hi * 65536 + lo with 0 <= lo < 65536.
RECURSIVE DurationHi(_), DurationLo(_)
DurationHi(k) ==
  IF k = 0 THEN 0 ELSE DurationHi(k - 1) + (Duration(in[PosAt(k)]) \div HALF)
DurationLo(k) ==
  IF k = 0 THEN 0 ELSE DurationLo(k - 1) + (Duration(in[PosAt(k)]) % HALF)

DurationSum(k) ==
  [hi |-> DurationHi(k) + (DurationLo(k) \div HALF), lo |-> DurationLo(k) % HALF]

\* C4: the k-th keyframe's absolute_time is the sum of the durations of the
\* first k position directives.
C4_TimeIsSumOfDurations ==
  \A k \in 1..Len(keyFrames) : keyFrames[k].keyFrameTime = DurationSum(k)

\* The same sum reduced to the width of the clock (modulo 2^32).
TimeIsSumModuloWidth ==
  \A k \in 1..Len(keyFrames) :
    keyFrames[k].keyFrameTime =
      [hi |-> DurationSum(k).hi % HALF, lo |-> DurationSum(k).lo]

\* C5: a position directive with no stiffness directive since the previous
\* position directive gets the stiffness list of its own set joints, in order,
\* each with value 1.0.
C5_ImplicitFullStiffness ==
  \A k \in 1..Len(keyFrames) :
    ~StiffnessBetween(PosBefore(k), PosAt(k)) =>
      LET js == keyFrames[k].jointStiffnesses
          joints == LineJoints(in[PosAt(k)])
      IN  /\ js.indexes = joints
          /\ js.stiffnesses = [i \in 1..Len(joints) |-> FullStiffness]

\* The second of two position directives on the last joint alone, with no
\* stiffness directive anywhere, carries stiffness 1.0 for that joint.
C5_Witness ==
  /\ Len(keyFrames) = 2
  /\ \A i \in 1..Len(in) : ~IsStiffness(in[i])
  /\ keyFrames[2].jointStiffnesses =
       [indexes |-> <<NUMJOINTS - 1>>, stiffnesses |-> <<FullStiffness>>]

\* C6: with stiffness directives pending, their concatenated index sequence is
\* compared with the position directive's: a difference ends the parse at that
\* line without a keyframe (failure return, or the exception of an unreadable
\* duration), and on equality the keyframe carries the directives' values.
C6_CustomStiffness ==
  \A k \in 1..Len(PositionIdxs(in)) :
    StiffnessBetween(PosBefore(k), PosAt(k)) =>
      LET joints == PendingJoints(in, PosBefore(k) + 1, PosAt(k) - 1)
          values == PendingValues(in, PosBefore(k) + 1, PosAt(k) - 1)
      IN  IF joints # LineJoints(in[PosAt(k)])
          THEN /\ PosAt(k) = Len(in)
               /\ Failed \/ pc = "threw"
               /\ Len(keyFrames) = k - 1
          ELSE Len(keyFrames) >= k =>
                 keyFrames[k].jointStiffnesses =
                   [indexes |-> joints, stiffnesses |-> values]

\* Two stiffness directives, then a position directive that matches their
\* concatenation, gave a keyframe with the directives' values.
C6_Witness ==
  /\ Len(in) = 3 /\ IsStiffness(in[1]) /\ IsStiffness(in[2]) /\ IsPosition(in[3])
  /\ LineJoints(in[1]) # <<>> /\ LineJoints(in[2]) # <<>>
  /\ Len(keyFrames) = 1
  /\ keyFrames[1].jointStiffnesses.indexes = LineJoints(in[1]) \o LineJoints(in[2])
  /\ \A i \in 1..Len(keyFrames[1].jointStiffnesses.stiffnesses) :
       keyFrames[1].jointStiffnesses.stiffnesses[i] # FullStiffness

\* A stiffness directive followed by a position directive on other joints
\* ended the parse with a failure.
C6_WitnessMismatch ==
  /\ Len(in) = 2 /\ IsStiffness(in[1]) /\ IsPosition(in[2])
  /\ Len(LineJoints(in[1])) = Len(LineJoints(in[2]))
  /\ LineJoints(in[1]) # LineJoints(in[2])
  /\ Failed

\* C7: an input of ignored lines only (first character neither $ nor !,
\* zero-length lines included) ends in success with no keyframe.
C7_OnlyIgnoredLines ==
  (pc # "loop" /\ \A i \in 1..Len(in) : ~IsStiffness(in[i]) /\ ~IsPosition(in[i]))
    => Succeeded /\ keyFrames = <<>>

\* A directive whose token count is not the one its marker requires.
WrongTokenCount(line) ==
  \/ IsStiffness(line) /\ Len(split(line)) # NUMJOINTS + 1
  \/ IsPosition(line) /\ Len(split(line)) # NUMJOINTS + 2

\* C8: a directive with the wrong token count makes parse return failure at
\* that line, with the pending stiffness, the flags, the clock and the
\* keyframes as they were before the line (no value token is converted).
C8_TokenCountFirst ==
  [][(pc = "loop" /\ in' # in /\ WrongTokenCount(in'[Len(in')]))
       => /\ pc' = "returned" /\ ~parseResult'.successful
          /\ parseResult'.keyFrames = parseResult.keyFrames
          /\ UNCHANGED locals]_vars

\* A position directive with too few tokens, all of them unreadable as float,
\* was rejected while a stiffness directive was pending.
C8_Witness ==
  /\ Len(in) = 2 /\ IsStiffness(in[1]) /\ WrongTokenCount(in[2])
  /\ IsPosition(in[2]) /\ split(in[2])[2] = T_1e39
  /\ Failed
  /\ customStiffnesses /\ jointStiffnesses.indexes # <<>>

\* The whole token is a number a float can hold.
ValidNumber(tok) == stof(tok).kind = "ok" /\ stof(tok).pos = Len(tok)
\* The whole token is a number an int can hold.
ValidInteger(tok) == stoi(tok).kind = "ok" /\ stoi(tok).pos = Len(tok)

\* A directive with the right token count and a value field that is neither
\* the unset sentinel nor a number.
HasInvalidValue(line) ==
  /\ IsStiffness(line) \/ IsPosition(line)
  /\ ~WrongTokenCount(line)
  /\ \E i \in 1..NUMJOINTS :
       split(line)[i + 1] # T_unset /\ ~ValidNumber(split(line)[i + 1])

\* Number of keyframes the lines before the last consumed one account for.
KeyFramesBeforeLast == Len(PositionIdxs(SubSeq(in, 1, Len(in) - 1)))

\* C9: a directive with an invalid value token makes parse return failure and
\* emits no keyframe for the line.
C9_InvalidValueFails ==
  (Len(in) > 0 /\ HasInvalidValue(in[Len(in)]))
    => Failed /\ Len(keyFrames) = KeyFramesBeforeLast

\* C10: a position directive whose duration token is not a valid integer makes
\* parse return failure; the clock is not advanced and no keyframe is emitted.
C10_InvalidDurationFails ==
  (/\ Len(in) > 0 /\ IsPosition(in[Len(in)]) /\ ~WrongTokenCount(in[Len(in)])
   /\ ~ValidInteger(split(in[Len(in)])[POSITIONS_SIZE]))
    => /\ Failed
       /\ Len(keyFrames) = KeyFramesBeforeLast
       /\ keyFrameTime = IF keyFrames = <<>> THEN U32(0)
                         ELSE keyFrames[Len(keyFrames)].keyFrameTime

\* A line that carries a structural or numeric error of its own.
HasError(line) ==
  \/ WrongTokenCount(line)
  \/ HasInvalidValue(line)
  \/ /\ IsPosition(line) /\ ~WrongTokenCount(line)
     /\ ~ValidInteger(split(line)[POSITIONS_SIZE])

\* C11: the first line with a structural or numeric error ends the parse with
\* failure at that line: a consumed line with such an error is the last line
\* consumed, parse has returned failure, and the line gave no keyframe.
C11_FailFast ==
  \A i \in 1..Len(in) :
    HasError(in[i]) =>
      /\ i = Len(in)
      /\ Failed
      /\ Len(keyFrames) = KeyFramesBeforeLast

\* The line without its leading and trailing whitespace.
RECURSIVE TrimLeft(_), TrimRight(_)
TrimLeft(line) ==
  IF line # <<>> /\ IsSpace(line[1]) THEN TrimLeft(Tail(line)) ELSE line
TrimRight(line) ==
  IF line # <<>> /\ IsSpace(line[Len(line)])
  THEN TrimRight(SubSeq(line, 1, Len(line) - 1)) ELSE line
Trim(line) == TrimLeft(TrimRight(line))

Trimmed(lines) == [i \in 1..Len(lines) |-> Trim(lines[i])]

NoEmptyLine(lines) == \A i \in 1..Len(lines) : lines[i] # <<>>

\* What parse computed, without the record of the lines it was given.
Outcome(st) == [st EXCEPT !.in = <<>>]

\* The state parse is in after the lines, given how far invocation st got.
After(lines, st) ==
  IF st.pc = "returned" /\ st.parseResult.successful = TRUE
  THEN parse(lines) ELSE ParseState(lines, Len(lines))

\* C12: whitespace before the marker or after the last token of a line does
\* not change the outcome: parse is where it would be on the trimmed lines.
C12_WhitespaceTolerant ==
  NoEmptyLine(Trimmed(in)) =>
    Outcome(Running) = Outcome(After(Trimmed(in), Running))

\* C13: each of two invocations, run one after the other or interleaved, is
\* in the state that parse reaches on its own input alone.
C13_IndependentInvocations ==
  /\ NoEmptyLine(in) => Running = After(in, Running)
  /\ NoEmptyLine(parked.in) => parked = After(parked.in, parked)

\* One invocation is suspended with a stiffness directive pending while the
\* other has emitted a keyframe with implicit stiffness; or one has failed and
\* the other has emitted a keyframe.
C13_Witness ==
  /\ parked.pc = "loop" /\ parked.customStiffnesses
  /\ parked.jointStiffnesses.indexes # <<>>
  /\ pc = "loop" /\ Len(keyFrames) = 1 /\ ~customStiffnesses
  /\ \A i \in 1..Len(keyFrames[1].jointStiffnesses.stiffnesses) :
       keyFrames[1].jointStiffnesses.stiffnesses[i] = FullStiffness

\* C14: once a position directive has emitted its keyframe, and until the next
\* stiffness directive, the pending stiffness is empty and the flag false; a
\* following position directive with no stiffness directive in between gets
\* stiffness 1.0 on its own joints.
C14_StiffnessForNextOnly ==
  /\ (/\ pc = "loop" /\ keyFrames # <<>>
      /\ ~StiffnessBetween(PosAt(Len(keyFrames)), Len(in) + 1))
       => jointStiffnesses = EmptyStiffnesses /\ ~customStiffnesses
  /\ \A k \in 2..Len(keyFrames) :
       ~StiffnessBetween(PosAt(k - 1), PosAt(k)) =>
         keyFrames[k].jointStiffnesses =
           [indexes |-> LineJoints(in[PosAt(k)]),
            stiffnesses |-> [i \in 1..Len(LineJoints(in[PosAt(k)])) |-> FullStiffness]]

\* A stiffness directive, its position directive, and a second position
\* directive: the first keyframe has the custom values, the second 1.0.
C14_Witness ==
  /\ Len(in) = 3 /\ IsStiffness(in[1]) /\ IsPosition(in[2]) /\ IsPosition(in[3])
  /\ Len(keyFrames) = 2
  /\ keyFrames[1].jointStiffnesses.stiffnesses # <<>>
  /\ \A i \in 1..Len(keyFrames[1].jointStiffnesses.stiffnesses) :
       keyFrames[1].jointStiffnesses.stiffnesses[i] # FullStiffness
  /\ \A i \in 1..Len(keyFrames[2].jointStiffnesses.stiffnesses) :
       keyFrames[2].jointStiffnesses.stiffnesses[i] = FullStiffness

IsIgnored(line) == line # <<>> /\ ~IsStiffness(line) /\ ~IsPosition(line)

\* The lines without the ignored ones.
WithoutIgnored(lines) == SelectSeq(lines, LAMBDA line : ~IsIgnored(line))

\* C15: parse is where it would be on the same lines with the ignored lines
\* (first character neither $ nor !) removed: pending stiffness, flags,
\* previous index set, clock, keyframes and result are the same.
C15_IgnoredLinesRemovable ==
  NoEmptyLine(in) =>
    Outcome(Running) = Outcome(After(WithoutIgnored(in), Running))

\* An ignored line between a stiffness directive and its position directive:
\* the keyframe carries the directive's values.
C15_Witness ==
  /\ Len(in) = 3 /\ IsStiffness(in[1]) /\ IsIgnored(in[2]) /\ IsPosition(in[3])
  /\ Len(keyFrames) = 1
  /\ keyFrames[1].jointStiffnesses.indexes = LineJoints(in[1])
  /\ keyFrames[1].jointStiffnesses.stiffnesses = SetValues(split(in[1]), 1)
  /\ keyFrames[1].jointStiffnesses.stiffnesses # <<>>

\* A position directive with the right token count whose value fields are all
\* the unset sentinel or convertible.
ReadablePosition(line) ==
  /\ IsPosition(line) /\ ~WrongTokenCount(line)
  /\ \A i \in 1..NUMJOINTS :
       split(line)[i + 1] = T_unset \/ stof(split(line)[i + 1]).kind = "ok"

\* C16: on a position directive with the right token count and readable
\* values the checks run in the order cross-frame consistency, duration,
\* stiffness/position match.  The failure reported is that of the first check
\* the line does not pass (an out-of-range duration ends the parse by the
\* exception of its conversion), no keyframe is added on a failure, and the
\* clock is advanced only when the first two checks passed.
C16_CheckOrder ==
  [][(pc = "loop" /\ in' # in /\ ReadablePosition(in'[Len(in')])) =>
       LET line == in'[Len(in')]
           cross == ~firstPosLine /\ LineJoints(line) # prevJointPositions.indexes
           d == stoi(split(line)[POSITIONS_SIZE])
           mismatch == customStiffnesses /\ jointStiffnesses.indexes # LineJoints(line)
           failed == pc' = "returned" /\ parseResult'.successful = FALSE
           same == parseResult'.keyFrames = parseResult.keyFrames
       IN  IF cross
           THEN failed /\ logged' = "inconsistent" /\ same /\ UNCHANGED keyFrameTime
           ELSE IF d.kind = "invalid_argument"
           THEN failed /\ logged' = "duration" /\ same /\ UNCHANGED keyFrameTime
           ELSE IF d.kind = "out_of_range"
           THEN pc' = "threw" /\ same /\ UNCHANGED <<keyFrameTime, logged>>
           ELSE IF mismatch
           THEN /\ failed /\ logged' \in {"stiffness_size", "stiffness_index"} /\ same
                /\ keyFrameTime' = AdvanceClock(keyFrameTime, d.val)
           ELSE /\ pc' = "loop" /\ UNCHANGED logged
                /\ Len(parseResult'.keyFrames) = Len(parseResult.keyFrames) + 1
                /\ keyFrameTime' = AdvanceClock(keyFrameTime, d.val)]_vars

\* A position directive that differs from the previous one in its joints and
\* has an unreadable duration was rejected for its joints, the clock still at
\* the previous keyframe's time.
C16_Witness ==
  /\ Len(in) >= 2 /\ ReadablePosition(in[Len(in)])
  /\ stoi(split(in[Len(in)])[POSITIONS_SIZE]).kind # "ok"
  /\ Failed /\ logged = "inconsistent"
  /\ keyFrames # <<>> /\ keyFrameTime = keyFrames[Len(keyFrames)].keyFrameTime

\* C17: in every keyframe the position indexes and values have the same
\* length, the indexes are strictly increasing within [0, NUMJOINTS), and
\* they are the joints whose field on the position line is not the sentinel.
C17_PositionIndexes ==
  \A k \in 1..Len(keyFrames) :
    LET jp == keyFrames[k].jointPositions
        toks == split(in[PosAt(k)])
    IN  /\ Len(jp.indexes) = Len(jp.positions)
        /\ \A i \in 1..Len(jp.indexes) : jp.indexes[i] \in 0..(NUMJOINTS - 1)
        /\ \A i \in 1..(Len(jp.indexes) - 1) : jp.indexes[i] < jp.indexes[i + 1]
        /\ \A j \in 0..(NUMJOINTS - 1) :
             (\E i \in 1..Len(jp.indexes) : jp.indexes[i] = j) <=> toks[j + 2] # T_unset

\* A keyframe from a position line that sets the last joint only.
C17_Witness ==
  /\ keyFrames # <<>>
  /\ split(in[PosAt(1)])[NUMJOINTS + 1] # T_unset
  /\ \A j \in 1..(NUMJOINTS - 1) : split(in[PosAt(1)])[j + 1] = T_unset
  /\ keyFrames[1].jointPositions.indexes = <<NUMJOINTS - 1>>
  /\ Len(keyFrames[1].jointPositions.positions) = 1

\* C18: in every keyframe the stiffness index sequence equals the position
\* index sequence and there is one stiffness value for each stiffness index.
C18_StiffnessMatchesPositions ==
  \A k \in 1..Len(keyFrames) :
    /\ keyFrames[k].jointStiffnesses.indexes = keyFrames[k].jointPositions.indexes
    /\ Len(keyFrames[k].jointStiffnesses.stiffnesses) =
         Len(keyFrames[k].jointStiffnesses.indexes)

\* A keyframe with stiffness from directives followed by one with implicit
\* stiffness, both on more than one joint.
C18_Witness ==
  /\ Len(keyFrames) = 2
  /\ StiffnessBetween(0, PosAt(1)) /\ ~StiffnessBetween(PosAt(1), PosAt(2))
  /\ Len(keyFrames[1].jointStiffnesses.indexes) = NUMJOINTS
  /\ Len(keyFrames[2].jointStiffnesses.indexes) = NUMJOINTS

\* C19: a successful parse returns one keyframe for each position directive,
\* in the order of the lines (each keyframe has the joints of its line and the
\* previous time advanced by its line's duration); and a parse that returned
\* after a readable stiffness directive as its last line succeeded.
C19_KeyFramePerPosition ==
  /\ Succeeded =>
       /\ Len(keyFrames) = Len(PositionIdxs(in))
       /\ \A k \in 1..Len(keyFrames) :
            /\ keyFrames[k].jointPositions.indexes = LineJoints(in[PosAt(k)])
            /\ keyFrames[k].keyFrameTime =
                 AdvanceClock(IF k = 1 THEN U32(0) ELSE keyFrames[k - 1].keyFrameTime,
                              Duration(in[PosAt(k)]))
  /\ (/\ pc = "returned" /\ Len(in) > 0
      /\ IsStiffness(in[Len(in)]) /\ ~WrongTokenCount(in[Len(in)])
      /\ \A i \in 1..NUMJOINTS :
           \/ split(in[Len(in)])[i + 1] = T_unset
           \/ stof(split(in[Len(in)])[i + 1]).kind = "ok")
       => Succeeded

\* Two position directives of different durations and then a stiffness
\* directive: success with two keyframes, the stiffness still pending.
C19_Witness ==
  /\ Succeeded /\ Len(in) = 3
  /\ IsPosition(in[1]) /\ IsPosition(in[2]) /\ IsStiffness(in[3])
  /\ Duration(in[1]) # Duration(in[2])
  /\ Len(keyFrames) = 2
  /\ customStiffnesses /\ jointStiffnesses.indexes # <<>>

====
